---- MODULE Spec2Model ----
(***************************************************************************)
(* Embodied Carbon Calculator (carbon_calc_app.py).                        *)
(*                                                                         *)
(* State: the two session lists (st.session_state.adds / .omits), the two  *)
(* text inputs (calc_name, calc_desc), the content of SAVE_FOLDER          *)
(* (folder), what the last handler did and showed (last), and the three    *)
(* metrics computed at the end of every script run (totals).  saved is a   *)
(* history variable: for every name a session was saved under, the adds    *)
(* and omits it held at its last save.                                     *)
(*                                                                         *)
(* Numbers are integers here (the program uses floats); strings that the   *)
(* program inspects character by character (the calculation name, file     *)
(* names) are sequences of one-character strings.                          *)
(***************************************************************************)
EXTENDS Integers, Sequences, FiniteSets, TLC

VARIABLES adds, omits, folder, calc_name, calc_desc, last, totals, saved

vars == <<adds, omits, folder, calc_name, calc_desc, last, totals, saved>>

(***************************************************************************)
(* Bounds of the model.                                                    *)
(***************************************************************************)
\* line items held by the session, both lists together
MaxLines == 2

\* quantities handed to add_item / delete indexes handed to delete_item
QtyInputs == {-1, 0, 2}
IndexInputs == (0 - (MaxLines + 1)) .. MaxLines
ListTypes == {"Add", "Omit"}
\* what the user may have typed in the two text inputs (name, description)
\* by the time of the next click
TextInputs == { << <<>>, "" >>, << <<" ">>, "blank" >>, << <<"a">>, "demo" >> }

(***************************************************************************)
(* Python helpers.                                                         *)
(***************************************************************************)
Whitespace == {" ", "\t", "\n"}

RECURSIVE lstrip(_)
lstrip(s) ==
    IF s # <<>> /\ Head(s) \in Whitespace THEN lstrip(Tail(s)) ELSE s

RECURSIVE rstrip(_)
rstrip(s) ==
    IF s # <<>> /\ s[Len(s)] \in Whitespace
    THEN rstrip(SubSeq(s, 1, Len(s) - 1))
    ELSE s

\* str.strip()
strip(s) == rstrip(lstrip(s))

\* str.endswith(suffix)
endswith(s, suffix) ==
    /\ Len(s) >= Len(suffix)
    /\ SubSeq(s, Len(s) - Len(suffix) + 1, Len(s)) = suffix

\* dict.get(key, default)
dict_get(d, key, default) == IF key \in DOMAIN d THEN d[key] ELSE default

\* list.pop(index) with an index that wraps when negative, skipping the
\* element one past the requested one
pop_off_by_one(list, index) ==
    LET n == Len(list)
        i == IF index < 0 THEN index + n ELSE index
    IN  IF i < 0 \/ i >= n
        THEN [raised |-> TRUE, list |-> list]
        ELSE LET j == IF i + 2 <= n THEN i + 2 ELSE 1
             IN  [raised |-> FALSE,
                  list |-> SubSeq(list, 1, j - 1) \o SubSeq(list, j + 1, n)]

\* list.pop(index): a negative index counts from the end of the list;
\* IndexError when the index is still out of range (or the list is empty)
pop(list, index) ==
    LET n == Len(list)
        i == IF index < 0 THEN index + n ELSE index
    IN  IF i < 0 \/ i >= n
        THEN [raised |-> TRUE, list |-> list]
        ELSE [raised |-> FALSE,
              list |-> SubSeq(list, 1, i) \o SubSeq(list, i + 2, n)]

\* sum(iterable): left fold from 0
RECURSIVE sum(_)
sum(xs) ==
    IF xs = <<>> THEN 0
    ELSE sum(SubSeq(xs, 1, Len(xs) - 1)) + xs[Len(xs)]

(***************************************************************************)
(* CONFIG and the reference table.                                         *)
(***************************************************************************)
JsonExt == <<".", "j", "s", "o", "n">>

EC_COLUMN == "Embodied Carbon (kg CO2e per declared unit)"

MaterialRow(material, sub, ice, unit, ec) ==
    [c \in {"Material", "Sub-material", "ICE DB Name",
            "Units of declared unit", EC_COLUMN} |->
        CASE c = "Material" -> material
          [] c = "Sub-material" -> sub
          [] c = "ICE DB Name" -> ice
          [] c = "Units of declared unit" -> unit
          [] OTHER -> ec]

\* the table load_ice_db returns: string columns stripped, missing -> ""
ice_db == <<
    MaterialRow("Concrete", "In-situ", "Concrete C30", "m3", 3),
    MaterialRow("Steel", "", "Steel Section", "kg", 2) >>

\* names handed to add_item: the table's, and one the table does not hold
IceNameInputs == {"Concrete C30", "Steel Section", "Timber"}

(***************************************************************************)
(* json.dump / json.load: the file holds a JSON value, not the Python      *)
(* object.  A JSON object keeps its members in the order they were         *)
(* written; loading it gives a dict (on a repeated key the last wins).     *)
(***************************************************************************)
JStr(v) == [t |-> "string", v |-> v]
JNum(v) == [t |-> "number", v |-> v]
JArr(items) == [t |-> "array", v |-> items]
JObj(members) == [t |-> "object", v |-> members]

dump_entry(e) ==
    JObj(<< <<"ICE DB Name", JStr(e["ICE DB Name"])>>,
            <<"Qty", JNum(e["Qty"])>>,
            <<"EC_per_unit", JNum(e["EC_per_unit"])>>,
            <<"Total_EC", JNum(e["Total_EC"])>> >>)

dump_list(list) == JArr([i \in 1..Len(list) |-> dump_entry(list[i])])

\* json.dump(data, f) of the dict save_calculation builds
json_dump(data) ==
    JObj(<< <<"name", JStr(data["name"])>>,
            <<"description", JStr(data["description"])>>,
            <<"adds", dump_list(data["adds"])>>,
            <<"omits", dump_list(data["omits"])>> >>)

\* json.load(f)
RECURSIVE json_load(_)
json_load(j) ==
    CASE j.t = "array" -> [i \in 1..Len(j.v) |-> json_load(j.v[i])]
      [] j.t = "object" ->
            LET members == j.v
                keys == {members[i][1] : i \in 1..Len(members)}
                at(k) == CHOOSE i \in 1..Len(members) :
                            /\ members[i][1] = k
                            /\ \A m \in 1..Len(members) :
                                   members[m][1] = k => m <= i
            IN  [k \in keys |-> json_load(members[at(k)][2])]
      [] OTHER -> j.v

(***************************************************************************)
(* FUNCTIONS                                                               *)
(***************************************************************************)
\* what the last handler did and showed
Shown(op, out, arg) == [op |-> op, out |-> out, arg |-> arg]

\* net change computed as a sum instead of a difference
update_totals_plus(a, o) ==
    LET total_add == sum([i \in 1..Len(a) |-> a[i]["Total_EC"]])
        total_omit == sum([i \in 1..Len(o) |-> o[i]["Total_EC"]])
        net_change == total_add + total_omit
    IN  <<total_add, total_omit, net_change>>

update_totals(a, o) ==
    LET total_add == sum([i \in 1..Len(a) |-> a[i]["Total_EC"]])
        total_omit == sum([i \in 1..Len(o) |-> o[i]["Total_EC"]])
        net_change == total_add - total_omit
    IN  <<total_add, total_omit, net_change>>

\* ice_db[ice_db['ICE DB Name'] == ice_name]
lookup(ice_name) ==
    SelectSeq(ice_db, LAMBDA row : row["ICE DB Name"] = ice_name)

LineItem(ice_name, qty, ec_per_unit, total_ec) ==
    [k \in {"ICE DB Name", "Qty", "EC_per_unit", "Total_EC"} |->
        CASE k = "ICE DB Name" -> ice_name
          [] k = "Qty" -> qty
          [] k = "EC_per_unit" -> ec_per_unit
          [] OTHER -> total_ec]

\* the entry built from the table's first row, whatever row matched
new_entry_first_row(match, ice_name, qty) ==
    LET row == ice_db[1]
        ec_per_unit == row[EC_COLUMN]
        total_ec == ec_per_unit * qty
    IN  LineItem(ice_name, qty, ec_per_unit, total_ec)

\* lines 60-63 of add_item
new_entry(match, ice_name, qty) ==
    LET row == match[1]
        ec_per_unit == row[EC_COLUMN]
        total_ec == ec_per_unit * qty
    IN  LineItem(ice_name, qty, ec_per_unit, total_ec)

\* add_item without the early return: a miss appends a line of zero carbon
add_item_no_return(list_type, ice_name, qty) ==
    LET match == lookup(ice_name)
        entry == IF match = <<>>
                 THEN LineItem(ice_name, qty, 0, 0)
                 ELSE new_entry(match, ice_name, qty)
    IN  /\ last' = Shown("add_item",
                         IF match = <<>> THEN "warning: not found in ICE DB"
                         ELSE "", <<>>)
        /\ IF list_type = "Add"
           THEN adds' = Append(adds, entry) /\ omits' = omits
           ELSE omits' = Append(omits, entry) /\ adds' = adds

add_item(list_type, ice_name, qty) ==
    LET match == lookup(ice_name)
    IN  IF match = <<>>
        THEN /\ last' = Shown("add_item", "warning: not found in ICE DB",
                              <<>>)
             /\ adds' = adds
             /\ omits' = omits
        ELSE LET entry == new_entry(match, ice_name, qty)
             IN  /\ last' = Shown("add_item", "", <<>>)
                 /\ IF list_type = "Add"
                    THEN adds' = Append(adds, entry) /\ omits' = omits
                    ELSE omits' = Append(omits, entry) /\ adds' = adds

delete_item(list_type, index) ==
    IF list_type = "Add"
    THEN LET r == pop(adds, index)
         IN  /\ adds' = r.list
             /\ omits' = omits
             /\ last' = Shown("delete_item",
                              IF r.raised THEN "IndexError" ELSE "", <<>>)
    ELSE LET r == pop(omits, index)
         IN  /\ omits' = r.list
             /\ adds' = adds
             /\ last' = Shown("delete_item",
                              IF r.raised THEN "IndexError" ELSE "", <<>>)

\* every save goes to one fixed file
file_path_fixed(name) == <<"c">> \o JsonExt

\* os.path.join(SAVE_FOLDER, f"{name}.json"), as a name inside SAVE_FOLDER
file_path(name) == name \o JsonExt

write_file(dir, path, content) ==
    [f \in DOMAIN dir \cup {path} |-> IF f = path THEN content ELSE dir[f]]

save_calculation(name, description) ==
    LET data == [name |-> name, description |-> description,
                 adds |-> adds, omits |-> omits]
    IN  /\ folder' = write_file(folder, file_path(name), json_dump(data))
        /\ last' = Shown("save_calculation", "success: Saved to",
                         file_path(name))

\* the dict read back from a file, adds and omits taken from each other
read_session_swapped(dir, file) ==
    LET data == json_load(dir[file])
    IN  [adds |-> dict_get(data, "omits", <<>>),
         omits |-> dict_get(data, "adds", <<>>),
         name |-> dict_get(data, "name", <<>>),
         description |-> dict_get(data, "description", "")]

\* lines 49-53 of load_calculation: what it assigns and what it returns
read_session(dir, file) ==
    LET data == json_load(dir[file])
    IN  [adds |-> dict_get(data, "adds", <<>>),
         omits |-> dict_get(data, "omits", <<>>),
         name |-> dict_get(data, "name", <<>>),
         description |-> dict_get(data, "description", "")]

load_calculation(file) ==
    LET r == read_session(folder, file)
    IN  /\ adds' = r.adds
        /\ omits' = r.omits

(***************************************************************************)
(* UI: one action per script run.  A run ends with update_totals (line     *)
(* 158) unless an exception stopped it.                                    *)
(***************************************************************************)
Lines == Len(adds) + Len(omits)

\* a text input was edited: calc_name / calc_desc (lines 80-81)
TextInput(name, desc) ==
    /\ calc_name' = name
    /\ calc_desc' = desc
    /\ last' = Shown("text_input", "", <<>>)
    /\ totals' = update_totals(adds, omits)
    /\ UNCHANGED <<adds, omits, folder, saved>>

\* the name test of the Save handler without strip()
name_given_unstripped(name) == name # <<>>

\* if calc_name.strip(): (line 86)
name_given(name) == strip(name) # <<>>

\* "Save Calculation" (lines 85-89)
SaveButton ==
    /\ IF name_given(calc_name)
       THEN /\ save_calculation(calc_name, calc_desc)
            /\ saved' = write_file(saved, calc_name,
                                   [adds |-> adds, omits |-> omits])
       ELSE /\ last' = Shown("save_calculation",
                             "warning: Enter a calculation name before saving.",
                             <<>>)
            /\ UNCHANGED <<folder, saved>>
    /\ totals' = update_totals(adds, omits)
    /\ UNCHANGED <<adds, omits, calc_name, calc_desc>>

\* [f for f in os.listdir(SAVE_FOLDER) if f.endswith(".json")] (line 91)
listing(dir) == {f \in DOMAIN dir : endswith(f, JsonExt)}

\* "Load Calculation" / "Load Now" (lines 90-99); the name and description
\* load_calculation returns go to two locals nothing reads
LoadButton ==
    LET files == listing(folder)
    IN  /\ IF files # {}
           THEN \E file_to_load \in files :
                   /\ load_calculation(file_to_load)
                   /\ last' = Shown("load_calculation", "", file_to_load)
           ELSE /\ last' = Shown("load_calculation",
                                 "info: No saved calculations found.", <<>>)
                /\ UNCHANGED <<adds, omits>>
        /\ totals' = update_totals(adds', omits')
        /\ UNCHANGED <<folder, calc_name, calc_desc, saved>>

\* add_item called with any bucket, name and quantity
AddItem(list_type, ice_name, qty) ==
    /\ Lines < MaxLines \/ lookup(ice_name) = <<>>
    /\ add_item(list_type, ice_name, qty)
    /\ totals' = update_totals(adds', omits')
    /\ UNCHANGED <<folder, calc_name, calc_desc, saved>>

\* delete_item called with any bucket and index; IndexError stops the run
DeleteItem(list_type, index) ==
    /\ delete_item(list_type, index)
    /\ totals' = IF last'.out = "IndexError" THEN totals
                 ELSE update_totals(adds', omits')
    /\ UNCHANGED <<folder, calc_name, calc_desc, saved>>

(***************************************************************************)
(* The widgets that feed add_item and delete_item (lines 104-155).         *)
(***************************************************************************)
\* st.number_input("Quantity", min_value=0.0, ...)
number_input == {q \in QtyInputs : q >= 0}

\* the three cascading select boxes (lines 104-108)
materials == {ice_db[i]["Material"] : i \in 1..Len(ice_db)}
sub_materials(material) ==
    {ice_db[i]["Sub-material"] :
        i \in {r \in 1..Len(ice_db) : ice_db[r]["Material"] = material}}
ice_names(material, sub_material) ==
    {ice_db[i]["ICE DB Name"] :
        i \in {r \in 1..Len(ice_db) :
                  /\ ice_db[r]["Material"] = material
                  /\ ice_db[r]["Sub-material"] = sub_material}}
\* every name the third select box can hold
selectable ==
    UNION {UNION {ice_names(m, s) : s \in sub_materials(m)} : m \in materials}

\* the Add / Omit gate letting a zero quantity through
may_add_zero(qty, ice_name) == qty >= 0 /\ ice_name # ""

\* if qty > 0 and ice_name: (lines 133, 136)
may_add(qty, ice_name) == qty > 0 /\ ice_name # ""

\* a click on Add or Omit whose gate is closed: nothing but the rerun
NoOpClick(op) ==
    /\ last' = Shown(op, "", <<>>)
    /\ totals' = update_totals(adds, omits)
    /\ UNCHANGED <<adds, omits, folder, calc_name, calc_desc, saved>>

\* "Add" (lines 132-134)
AddButton(qty, ice_name) ==
    IF may_add(qty, ice_name)
    THEN AddItem("Add", ice_name, qty)
    ELSE NoOpClick("add_button")

\* "Omit" (lines 135-137)
OmitButton(qty, ice_name) ==
    IF may_add(qty, ice_name)
    THEN AddItem("Omit", ice_name, qty)
    ELSE NoOpClick("omit_button")

\* "Delete Add i+1" (lines 143-147); i is the 0-based enumerate index
DeleteAddButton(i) == i \in 0..(Len(adds) - 1) /\ DeleteItem("Add", i)

\* "Delete Omit i+1" (lines 151-155)
DeleteOmitButton(i) == i \in 0..(Len(omits) - 1) /\ DeleteItem("Omit", i)

(***************************************************************************)
(* Specifications.                                                         *)
(***************************************************************************)
\* files found in SAVE_FOLDER at start: none (NoFiles), or an older file
\* without adds/omits next to a file that is no JSON file (OldFiles)
NoFiles == [f \in {} |-> JStr("")]
OldFiles ==
    write_file(
        write_file(NoFiles, <<"o", "l", "d">> \o JsonExt,
                   JObj(<< <<"name", JStr(<<"o", "l", "d">>)>>,
                           <<"description", JStr("legacy")>> >>)),
        <<"n", ".", "t", "x", "t">>, JStr("notes"))

InitSession ==
    /\ adds = <<>>
    /\ omits = <<>>
    /\ calc_name = <<>>
    /\ calc_desc = ""
    /\ last = Shown("start", "", <<>>)
    /\ totals = update_totals(<<>>, <<>>)
    /\ saved = NoFiles

\* add_item and delete_item called with any arguments, and loads of the
\* older file
Init == InitSession /\ folder = OldFiles

Next ==
    \/ LoadButton
    \/ \E list_type \in ListTypes, ice_name \in IceNameInputs, qty \in QtyInputs :
          AddItem(list_type, ice_name, qty)
    \/ \E list_type \in ListTypes, index \in IndexInputs :
          DeleteItem(list_type, index)

Spec == Init /\ [][Next]_vars

\* the functions called as the buttons call them
InitUI == InitSession /\ folder \in {NoFiles, OldFiles}

NextUI ==
    \/ \E t \in TextInputs : TextInput(t[1], t[2])
    \/ SaveButton
    \/ LoadButton
    \/ \E qty \in number_input, ice_name \in selectable : AddButton(qty, ice_name)
    \/ \E qty \in number_input, ice_name \in selectable : OmitButton(qty, ice_name)
    \/ \E i \in 0..(MaxLines - 1) : DeleteAddButton(i)
    \/ \E i \in 0..(MaxLines - 1) : DeleteOmitButton(i)

SpecUI == InitUI /\ [][NextUI]_vars

(***************************************************************************)
(* Properties.                                                             *)
(***************************************************************************)
TableNames == {ice_db[i]["ICE DB Name"] : i \in 1..Len(ice_db)}

\* carbon per unit of the record named n
CarbonOf(n) ==
    LET i == CHOOSE r \in 1..Len(ice_db) : ice_db[r]["ICE DB Name"] = n
    IN  ice_db[i][EC_COLUMN]

\* empty or whitespace-only
IsBlank(name) == \A i \in 1..Len(name) : name[i] \in Whitespace

\* sum of Total_EC over list[k..], taken from the right
RECURSIVE CarbonFrom(_, _)
CarbonFrom(list, k) ==
    IF k > Len(list) THEN 0
    ELSE list[k]["Total_EC"] + CarbonFrom(list, k + 1)

Bucket(list_type) == IF list_type = "Add" THEN adds ELSE omits
BucketAfter(list_type) == IF list_type = "Add" THEN adds' ELSE omits'
OtherKept(list_type) == IF list_type = "Add" THEN omits' = omits ELSE adds' = adds

\* C1: add_item with a name of the reference table and any quantity
\* (zero and negative too) appends exactly one line at the end of the chosen
\* list: name and quantity as given, EC_per_unit the record's value, Total_EC
\* = quantity * EC_per_unit; the earlier lines keep value and position and
\* the other list is unchanged.
C1_AddAppendsOneLine ==
    [][\A list_type \in ListTypes, ice_name \in IceNameInputs, qty \in QtyInputs :
          (AddItem(list_type, ice_name, qty) /\ ice_name \in TableNames) =>
              LET before == Bucket(list_type)
                  after == BucketAfter(list_type)
                  entry == after[Len(after)]
              IN  /\ Len(after) = Len(before) + 1
                  /\ SubSeq(after, 1, Len(before)) = before
                  /\ entry["ICE DB Name"] = ice_name
                  /\ entry["Qty"] = qty
                  /\ entry["EC_per_unit"] = CarbonOf(ice_name)
                  /\ entry["Total_EC"] = qty * CarbonOf(ice_name)
                  /\ OtherKept(list_type)]_vars

\* a line of negative quantity was appended to omits behind another line
C1_Witness ==
    /\ last.op = "add_item" /\ last.out = ""
    /\ Len(omits) = 2
    /\ omits[2]["Qty"] < 0
    /\ omits[2]["ICE DB Name"] = "Steel Section"

\* C2: add_item with a name the reference table does not hold shows the
\* not-found warning and leaves adds and omits as they were.
C2_AddUnknownName ==
    [][\A list_type \in ListTypes, ice_name \in IceNameInputs, qty \in QtyInputs :
          (AddItem(list_type, ice_name, qty) /\ ice_name \notin TableNames) =>
              /\ last'.out = "warning: not found in ICE DB"
              /\ adds' = adds
              /\ omits' = omits]_vars

\* the warning was shown to a session that holds lines
C2_Witness ==
    /\ last.op = "add_item" /\ last.out = "warning: not found in ICE DB"
    /\ adds # <<>> /\ omits # <<>>

\* C3: delete_item with an index outside [0, length), negative ones
\* included, raises IndexError and leaves both lists unchanged.
C3_DeleteOutOfRange ==
    [][\A list_type \in ListTypes, index \in IndexInputs :
          (/\ DeleteItem(list_type, index)
           /\ (index < 0 \/ index >= Len(Bucket(list_type)))) =>
              /\ last'.out = "IndexError"
              /\ adds' = adds
              /\ omits' = omits]_vars

C5_TotalsConsistent ==
    /\ totals = <<CarbonFrom(adds, 1), CarbonFrom(omits, 1),
                  CarbonFrom(adds, 1) - CarbonFrom(omits, 1)>>
    /\ (adds = <<>> /\ omits = <<>>) => totals = <<0, 0, 0>>

\* totals of a session with lines in both lists and a negative net change
C5_Witness ==
    /\ adds # <<>> /\ omits # <<>>
    /\ totals[2] > 0
    /\ totals[3] < 0

\* C6: a session saved under a non-blank name is listed, and loading it,
\* whatever was added or deleted in between, gives back the adds and omits
\* of the time of the save.
C6_RoundTrip ==
    /\ [](\A name \in DOMAIN saved : (name \o JsonExt) \in listing(folder))
    /\ [][\A name \in DOMAIN saved :
             (/\ last'.op = "load_calculation"
              /\ last'.arg = name \o JsonExt) =>
                 /\ adds' = saved[name].adds
                 /\ omits' = saved[name].omits]_vars

\* a load brought back two different lines, one in each list
C6_Witness ==
    /\ last.op = "load_calculation" /\ last.arg = <<"a">> \o JsonExt
    /\ <<"a">> \in DOMAIN saved
    /\ Len(adds) = 1 /\ Len(omits) = 1
    /\ adds[1] # omits[1]

\* C7: after a load the session is the file's: adds and omits (empty when
\* the file has none), name and description.
C7_LoadReplacesSession ==
    (last.op = "load_calculation" /\ last.arg # <<>>) =>
        LET data == json_load(folder[last.arg])
        IN  /\ adds = dict_get(data, "adds", <<>>)
            /\ omits = dict_get(data, "omits", <<>>)
            /\ calc_name = dict_get(data, "name", <<>>)
            /\ calc_desc = dict_get(data, "description", "")

\* C8: a save with a blank name (empty or whitespace-only) shows the
\* enter-a-name warning, writes no file and leaves adds and omits alone.
C8_SaveBlankName ==
    [][(SaveButton /\ IsBlank(calc_name)) =>
          /\ last'.out = "warning: Enter a calculation name before saving."
          /\ folder' = folder
          /\ adds' = adds
          /\ omits' = omits]_vars

\* the warning was shown for a whitespace-only name, the session not empty
C8_Witness ==
    /\ last.op = "save_calculation"
    /\ last.out = "warning: Enter a calculation name before saving."
    /\ calc_name = <<" ">>
    /\ adds # <<>>

\* C9: a save with a non-blank name writes the file of that name only: it
\* then holds the current name, description, adds and omits and nothing
\* else, every other file is as before, and adds and omits are unchanged.
C9_SaveWritesOneBlob ==
    [][(SaveButton /\ ~IsBlank(calc_name)) =>
          LET f == calc_name \o JsonExt
          IN  /\ DOMAIN folder' = DOMAIN folder \cup {f}
              /\ json_load(folder'[f]) =
                    [name |-> calc_name, description |-> calc_desc,
                     adds |-> adds, omits |-> omits]
              /\ \A g \in DOMAIN folder \ {f} : folder'[g] = folder[g]
              /\ adds' = adds
              /\ omits' = omits]_vars

\* a save next to the older files, of a session with two lines
C9_Witness ==
    /\ last.op = "save_calculation" /\ last.out = "success: Saved to"
    /\ DOMAIN folder = DOMAIN OldFiles \cup {<<"a">> \o JsonExt}
    /\ Len(adds) = 2
    /\ json_load(folder[<<"a">> \o JsonExt])["adds"] = adds

WellFormed(item) ==
    /\ item["Qty"] > 0
    /\ item["ICE DB Name"] \in TableNames
    /\ item["EC_per_unit"] = CarbonOf(item["ICE DB Name"])
    /\ item["Total_EC"] = item["Qty"] * item["EC_per_unit"]

\* C10: through the buttons, save and load, every line of adds and omits
\* has Qty > 0, a name of the reference table, that record's EC_per_unit
\* and Total_EC = Qty * EC_per_unit.
C10_LinesWellFormed ==
    /\ \A i \in 1..Len(adds) : WellFormed(adds[i])
    /\ \A i \in 1..Len(omits) : WellFormed(omits[i])

\* lines in both lists after a load
C10_Witness ==
    /\ last.op = "load_calculation"
    /\ adds # <<>> /\ omits # <<>>

====
